---- MODULE Spec2Model ----
(***************************************************************************)
(* Model of app/adapter.py: the stock-quote adapter that the monitoring    *)
(* platform runs as one process per call.  main dispatches on argv[0] to   *)
(* test, collect, get_endpoints or get_adapter_definition, sends the       *)
(* result, and leaves through the finally clause of main.                  *)
(*                                                                         *)
(* The library calls whose bodies are outside the repository               *)
(* (AdapterInstance.from_input, get_identifier_value, requests.get,        *)
(* send_results, the AdapterDefinition builder) are modelled by their      *)
(* possible outcomes: they return, or they raise.                          *)
(***************************************************************************)
EXTENDS Integers, Sequences, FiniteSets, TLC

\* ---------------------------------------------------------------- bounds
MaxArgs == 4
MaxPrice == 2

\* ------------------------------------------------------ program constants
RequiredArgs == 3
HTTP_OK == 200
ADAPTER_KIND == "StockQuoteAdapter"

\* ------------------------------------------------------------ input sets
Methods == {"test", "collect", "endpoint_urls", "adapter_definition"}
MethodNames == Methods \cup {"bogus", "Collect"}
Tickers == {"ABC", "XYZ"}
Prices == 1..MaxPrice
Statuses == {HTTP_OK, 204, 404, 500}
Fields == {"bid", "ask"}

\* argv as main receives it (sys.argv[1:]): a method name followed by paths
ArgTail == <<"in.json", "out.json", "extra">>
ArgvOf(m, n) == [i \in 1..n |-> IF i = 1 THEN m ELSE ArgTail[((i - 2) % 3) + 1]]
Argvs == {<<>>} \cup {ArgvOf(m, n) : m \in MethodNames, n \in 1..MaxArgs}

\* what requests.get(...) can produce: a raised fault, or a response with a
\* status and a body that either is not JSON or is a JSON object
Bodies == UNION {[F -> Prices] : F \in SUBSET Fields}
EmptyBody == [k \in {} |-> 0]
NoResponse == [fault |-> FALSE, status |-> 0, parses |-> FALSE, body |-> EmptyBody]
Responses ==
    {[fault |-> TRUE, status |-> 0, parses |-> FALSE, body |-> EmptyBody]}
    \cup {[fault |-> FALSE, status |-> s, parses |-> FALSE, body |-> EmptyBody] : s \in Statuses}
    \cup {[fault |-> FALSE, status |-> s, parses |-> TRUE, body |-> b] : s \in Statuses, b \in Bodies}

\* ---------------------------------------------------------- exceptions
Exc(t, a) == [type |-> t, arg |-> a]
repr(e) == e.type \o "(" \o (IF e.arg = "" THEN "" ELSE "'" \o e.arg \o "'") \o ")"

\* ------------------------------------------------------------- results
NoResult ==
    [kind |-> "None", objects |-> <<>>, endpoints |-> <<>>,
     hasError |-> FALSE, errorMessage |-> ""]
TestResult == [NoResult EXCEPT !.kind = "TestResult"]
CollectResult == [NoResult EXCEPT !.kind = "CollectResult"]
EndpointResult == [NoResult EXCEPT !.kind = "EndpointResult"]
AdapterDefinition == [NoResult EXCEPT !.kind = "AdapterDefinition"]

with_error(r, msg) == [r EXCEPT !.hasError = TRUE, !.errorMessage = msg]
Metric(k, v) == [key |-> k, value |-> v]
object(r, kind, type, name) ==
    [r EXCEPT !.objects =
        Append(@, [adapter_kind |-> kind, type |-> type, name |-> name, metrics |-> <<>>])]
add_metric(r, m) == [r EXCEPT !.objects[Len(r.objects)].metrics = Append(@, m)]

\* ------------------------------------------------------------------ test
test_accepts_below_400(cfgOk, resp) ==
    LET result == TestResult IN
    IF ~cfgOk THEN
        with_error(result, "Unexpected connection test error: " \o repr(Exc("Exception", "")))
    ELSE IF resp.fault THEN
        with_error(result, "Unexpected connection test error: " \o repr(Exc("ConnectionError", "")))
    ELSE IF resp.status >= 400 THEN
        with_error(result, "Error connecting to market")
    ELSE result

test(cfgOk, resp) ==
    LET result == TestResult IN
    IF ~cfgOk THEN
        with_error(result, "Unexpected connection test error: " \o repr(Exc("Exception", "")))
    ELSE IF resp.fault THEN
        with_error(result, "Unexpected connection test error: " \o repr(Exc("ConnectionError", "")))
    ELSE IF resp.status # HTTP_OK THEN
        with_error(result, "Error connecting to market")
    ELSE result

\* --------------------------------------------------------------- collect
CollectError(r, e) == with_error(r, "Unexpected collection error: " \o repr(e))

collect_swapped(cfgOk, ticker, resp) ==
    LET result == CollectResult IN
    IF ~cfgOk THEN CollectError(result, Exc("Exception", ""))
    ELSE IF resp.fault THEN CollectError(result, Exc("ConnectionError", ""))
    ELSE IF ~resp.parses THEN CollectError(result, Exc("JSONDecodeError", ""))
    ELSE
        LET q == resp.body
            quote == object(result, ADAPTER_KIND, "Quote", ticker)
        IN  IF "bid" \notin DOMAIN q THEN CollectError(quote, Exc("KeyError", "bid"))
            ELSE IF "ask" \notin DOMAIN q THEN CollectError(quote, Exc("KeyError", "ask"))
            ELSE add_metric(add_metric(quote, Metric("bid", q["ask"])), Metric("ask", q["bid"]))

collect_eager_add(cfgOk, ticker, resp) ==
    LET result == CollectResult IN
    IF ~cfgOk THEN CollectError(result, Exc("Exception", ""))
    ELSE IF resp.fault THEN CollectError(result, Exc("ConnectionError", ""))
    ELSE IF ~resp.parses THEN CollectError(result, Exc("JSONDecodeError", ""))
    ELSE
        LET q == resp.body
            quote == object(result, ADAPTER_KIND, "Quote", ticker)
        IN  IF "bid" \notin DOMAIN q THEN CollectError(quote, Exc("KeyError", "bid"))
            ELSE LET withBid == add_metric(quote, Metric("bid", q["bid"]))
                 IN  IF "ask" \notin DOMAIN q THEN CollectError(withBid, Exc("KeyError", "ask"))
                     ELSE add_metric(withBid, Metric("ask", q["ask"]))

collect(cfgOk, ticker, resp) ==
    LET result == CollectResult IN
    IF ~cfgOk THEN CollectError(result, Exc("Exception", ""))
    ELSE IF resp.fault THEN CollectError(result, Exc("ConnectionError", ""))
    ELSE IF ~resp.parses THEN CollectError(result, Exc("JSONDecodeError", ""))
    ELSE
        LET q == resp.body
            quote == object(result, ADAPTER_KIND, "Quote", ticker)
        IN  IF "bid" \notin DOMAIN q THEN CollectError(quote, Exc("KeyError", "bid"))
            ELSE IF "ask" \notin DOMAIN q THEN CollectError(quote, Exc("KeyError", "ask"))
            ELSE add_metric(add_metric(quote, Metric("bid", q["bid"])), Metric("ask", q["ask"]))

\* --------------------------------------------------------- get_endpoints
get_endpoints == EndpointResult

\* ------------------------------------------------ get_adapter_definition
get_adapter_definition(built) == IF built THEN AdapterDefinition ELSE NoResult

\* ------------------------------------------------------------------ main
WrongArgCount_fewer(a) == Len(a) < RequiredArgs
WrongArgCount(a) == Len(a) # RequiredArgs

IsAdapterDefinition_any(r) == TRUE
IsAdapterDefinition(r) == r.kind = "AdapterDefinition"

\* the exit code the finally clause of main leaves the process with, given
\* the exception that was in flight when the clause was entered
FinallyExit_keep(p) == IF p = "none" THEN 0 ELSE 1
FinallyExit(p) == 0

\* where control goes after requests.get returned or raised
Returning(at) == IF at = "test_get" THEN "test_done" ELSE "collect_done"
AfterGet_retry(at, resp, n) == IF resp.fault /\ n < 2 THEN at ELSE Returning(at)
AfterGet(at, resp, n) == Returning(at)

VARIABLES argv, pc, pending, exitCode, ticker, cfgOk, response, result,
          output, gets, executed

vars == <<argv, pc, pending, exitCode, ticker, cfgOk, response, result,
          output, gets, executed>>

Init ==
    /\ argv \in Argvs
    /\ pc = "start"
    /\ pending = "none"
    /\ exitCode = -1
    /\ ticker \in Tickers
    /\ cfgOk = TRUE
    /\ response = NoResponse
    /\ result = NoResult
    /\ output = <<>>
    /\ gets = 0
    /\ executed = {}

\* main, lines 173-177: the argument count check, outside the try
CheckArgs ==
    /\ pc = "start"
    /\ IF WrongArgCount(argv)
       THEN /\ exitCode' = 1
            /\ pc' = "exited"
       ELSE /\ exitCode' = exitCode
            /\ pc' = "dispatch"
    /\ UNCHANGED <<argv, pending, ticker, cfgOk, response, result, output, gets, executed>>

\* main, lines 179-198: the if/elif chain on the method name
Dispatch ==
    /\ pc = "dispatch"
    /\ LET method == argv[1] IN
       IF method \in {"test", "endpoint_urls", "collect"}
       THEN /\ pc' = "from_input"
            /\ pending' = pending
       ELSE IF method = "adapter_definition"
       THEN /\ pc' = "adapter_definition"
            /\ pending' = pending
       ELSE /\ pc' = "finally"
            /\ pending' = "SystemExit(1)"
    /\ UNCHANGED <<argv, exitCode, ticker, cfgOk, response, result, output, gets, executed>>

\* AdapterInstance.from_input(): reads the input payload, or raises
FromInput ==
    /\ pc = "from_input"
    /\ \E ok \in BOOLEAN :
          IF ok
          THEN /\ pc' = argv[1]
               /\ pending' = pending
          ELSE /\ pc' = "finally"
               /\ pending' = "Exception"
    /\ UNCHANGED <<argv, exitCode, ticker, cfgOk, response, result, output, gets, executed>>

\* test / collect, lines 83-84 and 113-114: the configuration reads
ReadConfig ==
    /\ pc \in {"test", "collect"}
    /\ \E ok \in BOOLEAN :
          /\ cfgOk' = ok
          /\ pc' = IF ok THEN pc \o "_get" ELSE pc \o "_done"
    /\ executed' = executed \cup {pc}
    /\ UNCHANGED <<argv, pending, exitCode, ticker, response, result, output, gets>>

\* test / collect, lines 85 and 117: the one requests.get
HttpGet ==
    /\ pc \in {"test_get", "collect_get"}
    /\ \E resp \in Responses :
          /\ response' = resp
          /\ pc' = AfterGet(pc, resp, gets + 1)
    /\ gets' = gets + 1
    /\ UNCHANGED <<argv, pending, exitCode, ticker, cfgOk, result, output, executed>>

\* test, lines 86-95
TestReturn ==
    /\ pc = "test_done"
    /\ result' = test(cfgOk, response)
    /\ pc' = "send"
    /\ UNCHANGED <<argv, pending, exitCode, ticker, cfgOk, response, output, gets, executed>>

\* collect, lines 117-135
CollectReturn ==
    /\ pc = "collect_done"
    /\ result' = collect(cfgOk, ticker, response)
    /\ pc' = "send"
    /\ UNCHANGED <<argv, pending, exitCode, ticker, cfgOk, response, output, gets, executed>>

\* get_endpoints, lines 138-161
GetEndpoints ==
    /\ pc = "endpoint_urls"
    /\ result' = get_endpoints
    /\ executed' = executed \cup {"endpoint_urls"}
    /\ pc' = "send"
    /\ UNCHANGED <<argv, pending, exitCode, ticker, cfgOk, response, output, gets>>

\* main, lines 187-195, with get_adapter_definition, lines 29-65
GetAdapterDefinition ==
    /\ pc = "adapter_definition"
    /\ \E built \in BOOLEAN :
          /\ result' = get_adapter_definition(built)
          /\ IF IsAdapterDefinition(result')
             THEN /\ pc' = "send"
                  /\ pending' = pending
             ELSE /\ pc' = "finally"
                  /\ pending' = "SystemExit(1)"
    /\ executed' = executed \cup {"adapter_definition"}
    /\ UNCHANGED <<argv, exitCode, ticker, cfgOk, response, output, gets>>

\* result.send_results(): writes the payload to the output file, or raises
SendResults ==
    /\ pc = "send"
    /\ \E ok \in BOOLEAN :
          IF ok
          THEN /\ output' = Append(output, result)
               /\ pending' = pending
          ELSE /\ output' = output
               /\ pending' = "Exception"
    /\ pc' = "finally"
    /\ UNCHANGED <<argv, exitCode, ticker, cfgOk, response, result, gets, executed>>

\* main, lines 199-201: sys.exit(0) in the finally clause
Finally ==
    /\ pc = "finally"
    /\ exitCode' = FinallyExit(pending)
    /\ pc' = "exited"
    /\ UNCHANGED <<argv, pending, ticker, cfgOk, response, result, output, gets, executed>>

Next ==
    \/ CheckArgs
    \/ Dispatch
    \/ FromInput
    \/ ReadConfig
    \/ HttpGet
    \/ TestReturn
    \/ CollectReturn
    \/ GetEndpoints
    \/ GetAdapterDefinition
    \/ SendResults
    \/ Finally

Spec == Init /\ [][Next]_vars

TypeOK ==
    /\ argv \in Argvs
    /\ pc \in {"start", "dispatch", "from_input", "test", "collect", "endpoint_urls",
               "adapter_definition", "test_get", "collect_get", "test_done",
               "collect_done", "send", "finally", "exited"}
    /\ pending \in {"none", "SystemExit(1)", "Exception"}
    /\ exitCode \in {-1, 0, 1}
    /\ gets \in 0..2
    /\ Len(output) \in 0..2

\* ------------------------------------------------------------ properties
Exited == pc = "exited"
Dispatched == Len(argv) = RequiredArgs
Returned(op) == op \in executed /\ pc \in {"send", "finally", "exited"}
GotResponse == gets = 1 /\ cfgOk /\ ~response.fault
HasBoth == response.parses /\ Fields \subseteq DOMAIN response.body

\* C1: an invocation with exactly 3 arguments whose method name is not one
\* of test, collect, endpoint_urls, adapter_definition ends with a nonzero
\* exit code.
C1_UnknownMethodExitsNonzero ==
    (Exited /\ Dispatched /\ argv[1] \notin Methods) => exitCode # 0

\* C2: an invocation with exactly 3 arguments and one of the four method
\* names ends with exit code 0, whether or not the operation's result
\* carries an error.
C2_ValidDispatchExitsZero ==
    (Exited /\ Dispatched /\ argv[1] \in Methods) => exitCode = 0

C2_Witness ==
    /\ Exited /\ Dispatched /\ argv[1] = "collect"
    /\ result.hasError /\ output = <<result>> /\ exitCode = 0

\* C3: an invocation whose argument count is not exactly 3 ends with exit
\* code 1, runs none of the four operations and writes no result.
C3_WrongArgCountExitsOne ==
    ~Dispatched =>
        /\ executed = {}
        /\ output = <<>>
        /\ gets = 0
        /\ Exited => exitCode = 1

C3_Witness ==
    Exited /\ Len(argv) = RequiredArgs + 1 /\ argv[1] = "collect" /\ exitCode = 1

\* C4: with method adapter_definition, when get_adapter_definition returns
\* a value that is not an AdapterDefinition, the process ends with a nonzero
\* exit code and no result payload is written.
C4_FailedDefinitionExitsNonzero ==
    (Exited /\ "adapter_definition" \in executed /\ result.kind # "AdapterDefinition")
        => (exitCode # 0 /\ output = <<>>)

\* C5 as stated: every invocation has written exactly one result payload
\* when the process exits.
C5_ExactlyOnePayload == Exited => Len(output) = 1

\* C5 as amended: no invocation writes more than one payload; an invocation
\* with 3 arguments and a recognised method in which nothing raised inside
\* the try block of main has written exactly its one result when it exits;
\* an invocation with a wrong argument count, an unrecognised method or no
\* operation result has written none.
C5_AtMostOnePayload ==
    /\ Len(output) <= 1
    /\ output # <<>> => output = <<result>>
    /\ (Exited /\ Dispatched /\ argv[1] \in Methods /\ pending = "none")
          => Len(output) = 1
    /\ (~Dispatched \/ argv[1] \notin Methods \/ result.kind = "None")
          => output = <<>>

C5_Witness ==
    Exited /\ output = <<result>> /\ result.kind = "TestResult" /\ result.hasError

\* C6: test always hands a TestResult back to main; the result carries no
\* error exactly when the GET completed with status 200, whatever the body;
\* otherwise it carries a non-empty error message.
C6_TestResult ==
    Returned("test") =>
        /\ result.kind = "TestResult"
        /\ ~result.hasError <=> (GotResponse /\ response.status = HTTP_OK)
        /\ result.hasError => Len(result.errorMessage) > 0
        /\ ~result.hasError => result.errorMessage = ""

C6_Witness ==
    /\ pc = "send" /\ "test" \in executed /\ ~result.hasError
    /\ response.status = HTTP_OK /\ ~response.parses

\* C7: collect, given a response that lacks bid or ask or has a status other
\* than 200, returns a CollectResult with a non-empty error string and an
\* empty entity list.
C7_CollectErrorOnBadResponse ==
    (Returned("collect") /\ GotResponse /\ (response.status # HTTP_OK \/ ~HasBoth))
        => (result.hasError /\ result.errorMessage # "" /\ result.objects = <<>>)

\* C8: collect, given a JSON body with both bid and ask, returns exactly one
\* entity of type Quote named by the configured ticker, carrying exactly the
\* metrics bid and ask with the response's values, and no error.
C8_CollectQuote ==
    (Returned("collect") /\ GotResponse /\ HasBoth) =>
        /\ result.kind = "CollectResult"
        /\ ~result.hasError
        /\ Len(result.objects) = 1
        /\ result.objects[1].type = "Quote"
        /\ result.objects[1].name = ticker
        /\ result.objects[1].metrics =
              <<Metric("bid", response.body["bid"]), Metric("ask", response.body["ask"])>>

C8_Witness ==
    /\ pc = "send" /\ "collect" \in executed /\ GotResponse /\ HasBoth
    /\ response.body["bid"] # response.body["ask"]
    /\ Len(result.objects) = 1

\* C9: an invocation issues at most one HTTP GET, none for the methods
\* adapter_definition and endpoint_urls, and get_endpoints returns an empty
\* endpoint list.
C9_AtMostOneGet ==
    /\ gets <= 1
    /\ (Len(argv) >= 1 /\ argv[1] \in {"adapter_definition", "endpoint_urls"}) => gets = 0
    /\ Returned("endpoint_urls") => (result.kind = "EndpointResult" /\ result.endpoints = <<>>)

C9_Witness ==
    Exited /\ gets = 1 /\ response.fault /\ result.hasError

\* C10: in every CollectResult that collect returns, each entity carries
\* either both metrics bid and ask or none, and a result whose entity
\* carries both metrics has no error.
C10_BothOrNoMetric ==
    Returned("collect") =>
        \A i \in 1..Len(result.objects) :
            LET keys == {result.objects[i].metrics[j].key :
                            j \in 1..Len(result.objects[i].metrics)}
            IN  /\ keys \in {{}, Fields}
                /\ Len(result.objects[i].metrics) = Cardinality(keys)
                /\ keys = Fields => ~result.hasError

C10_Witness ==
    /\ pc = "send" /\ "collect" \in executed
    /\ Len(result.objects) = 1 /\ result.objects[1].metrics = <<>>
    /\ response.parses /\ DOMAIN response.body = {"bid"}
    /\ result.hasError

====
